---- MODULE Spec2Model ----
(***************************************************************************)
(* State-machine model of the space shooter in src/src/main.rs: the       *)
(* session (MainState), the player's damage / invincibility logic         *)
(* (Player) and the three event handlers of the frame driver (update,     *)
(* key_down_event, key_up_event).                                         *)
(*                                                                         *)
(* Units.  The source computes in f32 seconds and pixels.  The model      *)
(* keeps pixels as integers and measures time in steps of 1/TimeScale     *)
(* second, so that every product speed * dt used by the code is an exact  *)
(* integer number of pixels.  Rounding of f32 is not modelled.  Rect      *)
(* coordinates are kept in half pixels because a bullet is 5 wide.        *)
(***************************************************************************)
EXTENDS Integers, Sequences, FiniteSets, TLC

\* ------------------------------------------------------------ constants
WINDOW_WIDTH == 800
WINDOW_HEIGHT == 600
PLAYER_SPEED == 300
BULLET_SPEED == 400
ENEMY_SPEED == 100
\* number of time steps per second: dt = 1 is 0.05 s
TimeScale == 20
\* 1.0 second
ENEMY_SPAWN_INTERVAL == 1 * TimeScale
\* the 2.0 seconds of take_damage
INVINCIBLE_TIME == 2 * TimeScale

\* lives and score are u32.  A u32 is held as the signed integer that has the
\* same 32 bits, so 4294967295 (what 0 - 1 wraps to) is held as -1, and the
\* wrapping operations of the machine are the plain ones of the integers.
wrapping_sub(a, b) == a - b
wrapping_add(a, b) == a + b
\* the unsigned operation leaves 0 .. 2^32 - 1
sub_overflows(a, b) == a >= 0 /\ a - b < 0
add_overflows(a, b) == a < 0 /\ a + b >= 0

\* ------------------------------------------------------------ bounds
\* number of update calls explored
MaxTicks == 5
\* number of key events explored
MaxKeys == 2

\* frame times offered to update: 0.05 s, 0.35 s, 2.0 s, 5.75 s
DtValues == {1, 7, 40, 115}
\* horizontal positions drawn from rng.gen_range(20.0..780.0): the column the
\* player starts in (the player's moves vary the offset between the two)
SpawnXs == {400}
\* keys delivered to key_down_event / key_up_event
DownKeys == {"Left", "Right", "Space", "R"}
UpKeys == {"Left", "Right", "Space"}

VARIABLES
    player,          \* Player: game_object, lives, invincible_timer
    bullets,         \* Vec<GameObject>
    enemies,         \* Vec<GameObject>
    powerups,        \* Vec<GameObject>
    score,           \* u32
    game_over,       \* bool
    spawn_timer,     \* f32, in time steps
    powerup_timer,   \* f32, in time steps
    panicked,        \* the process aborted on an arithmetic overflow
    ticks,           \* number of update calls so far
    keys,            \* number of key events so far
    last,            \* what the last update call did (history)
    since_damage,    \* time passed to Player.update since damage was applied
    age,             \* per enemy, the time passed to update since its spawn
    keylog,          \* the key events delivered by Press and Release (history)
    tracked,         \* the enemy and the bullet that Frame follows (history)
    frame            \* flipped by every call of update that Frame makes

session == <<player, bullets, enemies, powerups, score, game_over,
             spawn_timer, powerup_timer>>
vars == <<player, bullets, enemies, powerups, score, game_over,
          spawn_timer, powerup_timer, panicked, ticks, keys, last,
          since_damage, age, keylog, tracked, frame>>

\* ------------------------------------------------------------ GameObject
Vec2(x, y) == [x |-> x, y |-> y]

GameObject_new(x, y, width, height) ==
    [position |-> Vec2(x, y), velocity |-> Vec2(0, 0),
     size |-> Vec2(width, height), alive |-> TRUE]

\* Rect in half pixels: left, top, width, height
bounds(o) ==
    [x |-> 2 * o.position.x - o.size.x,
     y |-> 2 * o.position.y - o.size.y,
     w |-> 2 * o.size.x,
     h |-> 2 * o.size.y]

\* ggez Rect::overlaps: the closed rectangles intersect on both axes
overlaps(a, b) ==
    /\ a.x <= b.x + b.w
    /\ a.x + a.w >= b.x
    /\ a.y <= b.y + b.h
    /\ a.y + a.h >= b.y

collides_with(a, b) == overlaps(bounds(a), bounds(b))

\* velocity * dt, in pixels
Scaled(v, dt) == (v * dt) \div TimeScale

\* ------------------------------------------------------------ Player
Player_new(x, y) ==
    [game_object |-> GameObject_new(x, y, 30, 30),
     lives |-> 3,
     invincible_timer |-> 0]

\* mutant: the timer is not started, so there is no invincibility window
take_damage_NoWindow(p) ==
    IF p.invincible_timer <= 0
        THEN [player |-> [p EXCEPT !.lives = wrapping_sub(p.lives, 1)],
              applied |-> TRUE, overflow |-> sub_overflows(p.lives, 1)]
        ELSE [player |-> p, applied |-> FALSE, overflow |-> FALSE]

\* Player::take_damage.  lives -= 1 on a u32: with lives = 0 the subtraction
\* overflows; overflow says so, and player holds the wrapped value (a build
\* with overflow checks panics instead, see Tick and CallTakeDamage).
take_damage(p) ==
    IF p.invincible_timer <= 0
        THEN [player |-> [p EXCEPT !.lives = wrapping_sub(p.lives, 1),
                                   !.invincible_timer = INVINCIBLE_TIME],
              applied |-> TRUE, overflow |-> sub_overflows(p.lives, 1)]
        ELSE [player |-> p, applied |-> FALSE, overflow |-> FALSE]

\* Player::update
Player_update(p, dt) ==
    IF p.invincible_timer > 0
        THEN [p EXCEPT !.invincible_timer = @ - dt]
        ELSE p

is_invincible(p) == p.invincible_timer > 0

\* ------------------------------------------------------------ MainState
MainState_new ==
    [player |-> Player_new(WINDOW_WIDTH \div 2, WINDOW_HEIGHT - 50),
     bullets |-> <<>>,
     enemies |-> <<>>,
     powerups |-> <<>>,
     score |-> 0,
     game_over |-> FALSE,
     spawn_timer |-> 0,
     powerup_timer |-> 0]

\* the log of an update call: its frame time, whether it reset the session,
\* the calls of take_damage and the bullet-enemy pairs it resolved
NoLog == [dt |-> 0, reset |-> FALSE, dmg |-> <<>>, hits |-> <<>>]

Init ==
    /\ player = MainState_new.player
    /\ bullets = MainState_new.bullets
    /\ enemies = MainState_new.enemies
    /\ powerups = MainState_new.powerups
    /\ score = MainState_new.score
    /\ game_over = MainState_new.game_over
    /\ spawn_timer = MainState_new.spawn_timer
    /\ powerup_timer = MainState_new.powerup_timer
    /\ panicked = FALSE
    /\ ticks = 0
    /\ keys = 0
    /\ last = NoLog
    /\ since_damage = -1
    /\ age = <<>>
    /\ keylog = <<>>
    /\ tracked = [enemy |-> 0, bullet |-> 0]
    /\ frame = FALSE

\* mutant: a cooldown, no bullet is fired while one is in flight
fire_bullet_Cooldown(p, bs) ==
    IF bs # <<>>
        THEN bs
        ELSE Append(bs, [position |-> Vec2(p.game_object.position.x,
                                           p.game_object.position.y - 20),
                         velocity |-> Vec2(0, -BULLET_SPEED),
                         size |-> Vec2(5, 10),
                         alive |-> TRUE])

\* MainState::fire_bullet
fire_bullet(p, bs) ==
    Append(bs, [position |-> Vec2(p.game_object.position.x,
                                  p.game_object.position.y - 20),
                velocity |-> Vec2(0, -BULLET_SPEED),
                size |-> Vec2(5, 10),
                alive |-> TRUE])

\* MainState::spawn_enemy, x being the value drawn from the generator
spawn_enemy(es, x) == Append(es, GameObject_new(x, -20, 30, 30))

\* Vec::retain(|o| o.alive)
retain_alive(objs) == SelectSeq(objs, LAMBDA o : o.alive)

\* f32::clamp
clamp(v, lo, hi) == IF v < lo THEN lo ELSE IF v > hi THEN hi ELSE v

\* ------------------------------------------------------------ update, by phase
\* mutant: the player is moved but not clamped to the window
move_player_NoClamp(p, dt) ==
    [p EXCEPT !.game_object.position =
        Vec2(@.x + Scaled(p.game_object.velocity.x, dt),
             @.y + Scaled(p.game_object.velocity.y, dt))]

\* position += velocity * dt; position.x clamped to the window
move_player(p, dt) ==
    LET g == p.game_object
        x1 == g.position.x + Scaled(g.velocity.x, dt)
        y1 == g.position.y + Scaled(g.velocity.y, dt)
    IN  [p EXCEPT !.game_object.position =
            Vec2(clamp(x1, g.size.x \div 2, WINDOW_WIDTH - g.size.x \div 2), y1)]

\* mutant: the bullet is not moved
move_bullet_Stuck(b, dt) == b

\* one round of the bullet loop: move, mark dead above the window
move_bullet(b, dt) ==
    LET q == [b EXCEPT !.position = Vec2(@.x + Scaled(b.velocity.x, dt),
                                         @.y + Scaled(b.velocity.y, dt))]
    IN  IF q.position.y < -10 THEN [q EXCEPT !.alive = FALSE] ELSE q

\* the bullet loop and bullets.retain
bullet_phase(bs, dt) ==
    retain_alive([i \in 1..Len(bs) |-> move_bullet(bs[i], dt)])

\* mutant: the session ends on any applied damage
damage_ends_game_AnyDamage(td) == td.applied

\* self.player.take_damage() && self.player.lives == 0, td being what
\* take_damage returned and left
damage_ends_game(td) == td.applied /\ td.player.lives = 0

\* mutant: the bottom exit is taken on the line y = 615 already
enemy_step_ExitAtLine(s, i, dt) ==
    LET e1 == [s.enemies[i] EXCEPT !.position.y = @ + Scaled(ENEMY_SPEED, dt)]
        exits == e1.position.y >= WINDOW_HEIGHT + 15
        td1 == take_damage(s.player)
        p1 == IF exits THEN td1.player ELSE s.player
        e2 == IF exits THEN [e1 EXCEPT !.alive = FALSE] ELSE e1
        go1 == s.game_over \/ (exits /\ damage_ends_game(td1))
        dmg1 == IF exits
                  THEN Append(s.dmg, [enemy |-> i, branch |-> "bottom",
                                      applied |-> td1.applied])
                  ELSE s.dmg
        ov1 == s.overflow \/ (exits /\ td1.overflow)
        contact == ~is_invincible(p1) /\ collides_with(p1.game_object, e2)
        td2 == take_damage(p1)
        p2 == IF contact THEN td2.player ELSE p1
        e3 == IF contact THEN [e2 EXCEPT !.alive = FALSE] ELSE e2
        go2 == go1 \/ (contact /\ damage_ends_game(td2))
        dmg2 == IF contact
                  THEN Append(dmg1, [enemy |-> i, branch |-> "contact",
                                     applied |-> td2.applied])
                  ELSE dmg1
        ov2 == ov1 \/ (contact /\ td2.overflow)
    IN  [player |-> p2,
         enemies |-> [s.enemies EXCEPT ![i] = e3],
         game_over |-> go2,
         dmg |-> dmg2,
         overflow |-> ov2]

\* one round of the enemy loop, on enemy i.
\* s = [player, enemies, game_over, dmg, overflow]; dmg logs every call of
\* take_damage: the enemy, the branch that called and whether it was applied.
enemy_step(s, i, dt) ==
    LET e1 == [s.enemies[i] EXCEPT !.position.y = @ + Scaled(ENEMY_SPEED, dt)]
        exits == e1.position.y > WINDOW_HEIGHT + 15
        td1 == take_damage(s.player)
        p1 == IF exits THEN td1.player ELSE s.player
        e2 == IF exits THEN [e1 EXCEPT !.alive = FALSE] ELSE e1
        go1 == s.game_over \/ (exits /\ damage_ends_game(td1))
        dmg1 == IF exits
                  THEN Append(s.dmg, [enemy |-> i, branch |-> "bottom",
                                      applied |-> td1.applied])
                  ELSE s.dmg
        ov1 == s.overflow \/ (exits /\ td1.overflow)
        contact == ~is_invincible(p1) /\ collides_with(p1.game_object, e2)
        td2 == take_damage(p1)
        p2 == IF contact THEN td2.player ELSE p1
        e3 == IF contact THEN [e2 EXCEPT !.alive = FALSE] ELSE e2
        go2 == go1 \/ (contact /\ damage_ends_game(td2))
        dmg2 == IF contact
                  THEN Append(dmg1, [enemy |-> i, branch |-> "contact",
                                     applied |-> td2.applied])
                  ELSE dmg1
        ov2 == ov1 \/ (contact /\ td2.overflow)
    IN  [player |-> p2,
         enemies |-> [s.enemies EXCEPT ![i] = e3],
         game_over |-> go2,
         dmg |-> dmg2,
         overflow |-> ov2]

RECURSIVE enemy_loop(_, _, _)
\* for enemy in &mut self.enemies, from enemy i on
enemy_loop(s, i, dt) ==
    IF i > Len(s.enemies) THEN s ELSE enemy_loop(enemy_step(s, i, dt), i + 1, dt)

\* mutant: the liveness of the enemy is not tested
hit_step_NoAliveTest(s, i, j) ==
    IF collides_with(s.bullets[i], s.enemies[j])
        THEN [s EXCEPT !.bullets[i].alive = FALSE,
                       !.enemies[j].alive = FALSE,
                       !.score = wrapping_add(@, 10),
                       !.hits = Append(@, <<i, j>>),
                       !.overflow = @ \/ add_overflows(s.score, 10)]
        ELSE s

\* the body of the bullet-enemy loops, on bullet i and enemy j.
\* s = [bullets, enemies, score, hits, overflow]; hits logs the pairs resolved.
hit_step(s, i, j) ==
    IF collides_with(s.bullets[i], s.enemies[j]) /\ s.enemies[j].alive
        THEN [s EXCEPT !.bullets[i].alive = FALSE,
                       !.enemies[j].alive = FALSE,
                       !.score = wrapping_add(@, 10),
                       !.hits = Append(@, <<i, j>>),
                       !.overflow = @ \/ add_overflows(s.score, 10)]
        ELSE s

RECURSIVE hit_inner(_, _, _)
\* for enemy in &mut self.enemies, from enemy j on
hit_inner(s, i, j) ==
    IF j > Len(s.enemies) THEN s ELSE hit_inner(hit_step(s, i, j), i, j + 1)

RECURSIVE hit_outer(_, _)
\* for bullet in &mut self.bullets, from bullet i on
hit_outer(s, i) ==
    IF i > Len(s.bullets) THEN s ELSE hit_outer(hit_inner(s, i, 1), i + 1)

\* mutant: an enemy is spawned in every frame
spawn_due_Always(timer, dt) == TRUE

\* mutant: the spawn waits for the timer to pass the interval
spawn_due_Strict(timer, dt) == timer + dt > ENEMY_SPAWN_INTERVAL

\* spawn_timer += dt and the spawn test
spawn_due(timer, dt) == timer + dt >= ENEMY_SPAWN_INTERVAL

\* The body of update for a session that is not over.  S is the session as a
\* record, x the position the generator yields if an enemy is spawned.
update_running(S, dt, x) ==
    LET p1 == Player_update(S.player, dt)
        p2 == move_player(p1, dt)
        bs1 == bullet_phase(S.bullets, dt)
        el == enemy_loop([player |-> p2, enemies |-> S.enemies,
                          game_over |-> S.game_over, dmg |-> <<>>,
                          overflow |-> FALSE], 1, dt)
        hl == hit_outer([bullets |-> bs1, enemies |-> el.enemies,
                         score |-> S.score, hits |-> <<>>,
                         overflow |-> FALSE], 1)
        es1 == retain_alive(hl.enemies)
        due == spawn_due(S.spawn_timer, dt)
    IN  [session |->
            [player |-> el.player,
             bullets |-> hl.bullets,
             enemies |-> IF due THEN spawn_enemy(es1, x) ELSE es1,
             powerups |-> S.powerups,
             score |-> hl.score,
             game_over |-> el.game_over,
             spawn_timer |-> IF due THEN 0 ELSE S.spawn_timer + dt,
             powerup_timer |-> S.powerup_timer],
         dmg |-> el.dmg,
         hits |-> hl.hits,
         overflow |-> el.overflow \/ hl.overflow]

\* mutant: reset forgets to empty the enemies
reset_KeepsEnemies(S) == [MainState_new EXCEPT !.enemies = S.enemies]

\* MainState::reset
reset(S) == MainState_new

\* mutant: update without the game_over short-circuit
update_NoShortCircuit(S, dt, r_pressed, x) == update_running(S, dt, x)

\* EventHandler::update on session S with frame time dt; r_pressed is
\* ctx.keyboard.is_key_just_pressed(KeyCode::R), x the generator's value
update(S, dt, r_pressed, x) ==
    IF S.game_over
        THEN [session |-> IF r_pressed THEN reset(S) ELSE S,
              dmg |-> <<>>, hits |-> <<>>, overflow |-> FALSE]
        ELSE update_running(S, dt, x)

\* mutant: key_down_event without its game_over guard
key_down_event_NoGuard(S, key) ==
    CASE key = "Left" ->
           [S EXCEPT !.player.game_object.velocity.x = -PLAYER_SPEED]
      [] key = "Right" ->
           [S EXCEPT !.player.game_object.velocity.x = PLAYER_SPEED]
      [] key = "Space" ->
           [S EXCEPT !.bullets = fire_bullet(S.player, S.bullets)]
      [] OTHER -> S

\* EventHandler::key_down_event
key_down_event(S, key) ==
    IF S.game_over
        THEN S
        ELSE CASE key = "Left" ->
                    [S EXCEPT !.player.game_object.velocity.x = -PLAYER_SPEED]
               [] key = "Right" ->
                    [S EXCEPT !.player.game_object.velocity.x = PLAYER_SPEED]
               [] key = "Space" ->
                    [S EXCEPT !.bullets = fire_bullet(S.player, S.bullets)]
               [] OTHER -> S

\* mutant: a release stops the player only if it moves in the key's direction
key_up_event_OwnDirection(S, key) ==
    IF \/ key = "Left" /\ S.player.game_object.velocity.x < 0
       \/ key = "Right" /\ S.player.game_object.velocity.x > 0
        THEN [S EXCEPT !.player.game_object.velocity.x = 0]
        ELSE S

\* EventHandler::key_up_event
key_up_event(S, key) ==
    IF key \in {"Left", "Right"}
        THEN [S EXCEPT !.player.game_object.velocity.x = 0]
        ELSE S

\* ------------------------------------------------------------ the machine
\* the session as a record
Session ==
    [player |-> player, bullets |-> bullets, enemies |-> enemies,
     powerups |-> powerups, score |-> score, game_over |-> game_over,
     spawn_timer |-> spawn_timer, powerup_timer |-> powerup_timer]

\* *self = S
Store(S) ==
    /\ player' = S.player
    /\ bullets' = S.bullets
    /\ enemies' = S.enemies
    /\ powerups' = S.powerups
    /\ score' = S.score
    /\ game_over' = S.game_over
    /\ spawn_timer' = S.spawn_timer
    /\ powerup_timer' = S.powerup_timer

Min(a, b) == IF a < b THEN a ELSE b
Max(a, b) == IF a > b THEN a ELSE b

\* time passed to Player.update since damage was last applied, capped at the
\* length of the window; -1 while no damage was applied in this session
Elapsed(since, dt) ==
    IF since < 0 THEN since ELSE Min(since + dt, INVINCIBLE_TIME)

AnyApplied(dmg) == \E k \in 1..Len(dmg) : dmg[k].applied

\* the enemies an update call marked dead, by index: those it called
\* take_damage for (either branch marks the enemy dead before the call) and
\* those of the bullet-enemy pairs it resolved
Gone(dmg, hits) ==
    {dmg[k].enemy : k \in 1..Len(dmg)} \cup {hits[k][2] : k \in 1..Len(hits)}

\* the ages after an update call with frame time dt: enemies.retain drops the
\* enemies marked dead, the others are dt older, and a spawned enemy is new
Aged(ages, gone, dt, spawned) ==
    LET kept == SelectSeq([j \in 1..Len(ages) |-> <<j, ages[j] + dt>>],
                          LAMBDA pr : pr[1] \notin gone)
        older == [k \in 1..Len(kept) |-> kept[k][2]]
    IN  IF spawned THEN Append(older, 0) ELSE older

\* a call of update.  An arithmetic overflow in the call either panics (a
\* build with overflow checks) or wraps (a build without).
RunUpdate(dt, r_pressed) ==
    /\ ~panicked
    /\ \E x \in IF ~game_over /\ spawn_due(spawn_timer, dt) THEN SpawnXs ELSE {0} :
       LET r == update(Session, dt, r_pressed, x) IN
       \E checked \in IF r.overflow THEN BOOLEAN ELSE {FALSE} :
          IF checked
            THEN /\ panicked' = TRUE
                 /\ last' = [NoLog EXCEPT !.dt = dt]
                 /\ UNCHANGED <<session, since_damage, age>>
            ELSE /\ panicked' = FALSE
                 /\ Store(r.session)
                 /\ age' =
                        IF game_over
                          THEN IF r_pressed THEN <<>> ELSE age
                          ELSE Aged(age, Gone(r.dmg, r.hits), dt,
                                    spawn_due(spawn_timer, dt))
                 /\ last' = [dt |-> dt, reset |-> game_over /\ r_pressed,
                             dmg |-> r.dmg, hits |-> r.hits]
                 /\ since_damage' =
                        IF game_over
                          THEN IF r_pressed THEN -1 ELSE since_damage
                          ELSE IF AnyApplied(r.dmg) THEN 0
                               ELSE Elapsed(since_damage, dt)

\* the frame driver calls update
Tick(dt, r_pressed) ==
    /\ ticks < MaxTicks
    /\ ticks' = ticks + 1
    /\ RunUpdate(dt, r_pressed)
    /\ UNCHANGED <<keys, keylog, tracked, frame>>

\* the frame driver delivers a key press
KeyDown(key) ==
    /\ ~panicked
    /\ keys < MaxKeys
    /\ keys' = keys + 1
    /\ Store(key_down_event(Session, key))
    /\ UNCHANGED <<panicked, ticks, last, since_damage, age, keylog, tracked, frame>>

\* the frame driver delivers a key release
KeyUp(key) ==
    /\ ~panicked
    /\ keys < MaxKeys
    /\ keys' = keys + 1
    /\ Store(key_up_event(Session, key))
    /\ UNCHANGED <<panicked, ticks, last, since_damage, age, keylog, tracked, frame>>

Next ==
    \/ \E dt \in DtValues, r_pressed \in BOOLEAN : Tick(dt, r_pressed)
    \/ \E key \in DownKeys : KeyDown(key)
    \/ \E key \in UpKeys : KeyUp(key)

Spec == Init /\ [][Next]_vars

\* ------------------------------------------------------------ frame times
\* The same machine driven with frame times around the spawn interval:
\* 0.35 s and 0.65 s (which add up to the interval), 1.0 s (the interval
\* itself) and 5.75 s (more than five intervals in one frame).
DtCadence == {7, 13, 20, 115}

NextCadence ==
    \/ \E dt \in DtCadence, r_pressed \in BOOLEAN : Tick(dt, r_pressed)
    \/ \E key \in DownKeys : KeyDown(key)
    \/ \E key \in UpKeys : KeyUp(key)

SpecCadence == Init /\ [][NextCadence]_vars

\* ------------------------------------------------------------ key sequences
\* The same handlers driven with longer key sequences and short frames, the
\* key events being logged.
MaxPresses == 3
\* the frame time: 0.35 s, which moves the player by 105
DtKeys == {7}

\* the frame driver delivers a key press
Press(key) ==
    /\ ~panicked
    /\ Len(keylog) < MaxPresses
    /\ keylog' = Append(keylog, <<"down", key>>)
    /\ Store(key_down_event(Session, key))
    /\ UNCHANGED <<panicked, ticks, keys, last, since_damage, age, tracked,
                   frame>>

\* the frame driver delivers a key release
Release(key) ==
    /\ ~panicked
    /\ Len(keylog) < MaxPresses
    /\ keylog' = Append(keylog, <<"up", key>>)
    /\ Store(key_up_event(Session, key))
    /\ UNCHANGED <<panicked, ticks, keys, last, since_damage, age, tracked,
                   frame>>

NextKeys ==
    \/ \E dt \in DtKeys, r_pressed \in BOOLEAN : Tick(dt, r_pressed)
    \/ \E key \in DownKeys : Press(key)
    \/ \E key \in UpKeys : Release(key)

SpecKeys == Init /\ [][NextKeys]_vars

\* ------------------------------------------------------------ frames for ever
\* The same machine with no bound on the number of update calls, for what
\* happens eventually.  Frame follows one enemy and one bullet through the
\* sequences: tracked holds their indices, 0 once they have been removed;
\* frame is a bit that every call flips.
\* frame times: 0.95 s and 5.75 s
DtLive == {19, 115}

\* the index, after the elements at the indices gone were dropped, of the
\* element that was at index k; 0 if it was dropped or k is 0
Follow(k, gone) ==
    IF k = 0 \/ k \in gone THEN 0 ELSE k - Cardinality({g \in gone : g < k})

\* the bullets that bullets.retain drops in an update call with frame time dt:
\* those marked dead before the call and those the call moves above the window
BulletsDropped(bs, dt) ==
    {i \in 1..Len(bs) : ~move_bullet(bs[i], dt).alive}

\* the frame driver calls update; an enemy and a bullet of the session are
\* taken up to be followed if none is followed yet
Frame(dt, r_pressed) ==
    /\ RunUpdate(dt, r_pressed)
    /\ UNCHANGED <<ticks, keys, keylog>>
    /\ frame' = ~frame
    /\ IF panicked' \/ (game_over /\ ~r_pressed)
         THEN tracked' = tracked
         ELSE IF game_over
           THEN tracked' = [enemy |-> 0, bullet |-> 0]
           ELSE \E we \in IF tracked.enemy = 0 THEN 0..Len(enemies)
                                               ELSE {tracked.enemy},
                   wb \in IF tracked.bullet = 0 THEN 0..Len(bullets)
                                                ELSE {tracked.bullet} :
                  tracked' =
                    [enemy |-> Follow(we, Gone(last'.dmg, last'.hits)),
                     bullet |-> Follow(wb, BulletsDropped(bullets, dt))]

NextLive ==
    \/ \E dt \in DtLive, r_pressed \in BOOLEAN : Frame(dt, r_pressed)
    \/ \E key \in DownKeys : KeyDown(key)
    \/ \E key \in UpKeys : KeyUp(key)

\* update is called in every frame of the event loop, for ever: the steps
\* that flip frame are the steps of Frame, which is enabled unless the
\* process has panicked, and they keep occurring
SpecLive ==
    /\ Init
    /\ [][NextLive]_vars
    /\ WF_frame(~panicked /\ frame' = ~frame)

\* ------------------------------------------------------------ the Player alone
\* The Player type driven through its own methods, as a caller other than
\* MainState::update may drive it.
CallTakeDamage ==
    /\ ~panicked
    /\ LET td == take_damage(player) IN
       \E checked \in IF td.overflow THEN BOOLEAN ELSE {FALSE} :
          IF checked
            THEN /\ panicked' = TRUE
                 /\ UNCHANGED <<player, last, since_damage>>
            ELSE /\ panicked' = FALSE
                 /\ player' = td.player
                 /\ last' = [NoLog EXCEPT !.dmg =
                               <<[enemy |-> 0, branch |-> "call",
                                  applied |-> td.applied]>>]
                 /\ since_damage' = IF td.applied THEN 0 ELSE since_damage
    /\ UNCHANGED <<bullets, enemies, powerups, score, game_over, spawn_timer,
                   powerup_timer, ticks, keys, age, keylog, tracked,
                   frame>>

CallUpdate(dt) ==
    /\ ~panicked
    /\ ticks < MaxTicks
    /\ ticks' = ticks + 1
    /\ player' = Player_update(player, dt)
    /\ last' = [NoLog EXCEPT !.dt = dt]
    /\ since_damage' = Elapsed(since_damage, dt)
    /\ UNCHANGED <<bullets, enemies, powerups, score, game_over, spawn_timer,
                   powerup_timer, panicked, keys, age, keylog, tracked,
                   frame>>

NextPlayer ==
    \/ CallTakeDamage
    \/ \E dt \in DtValues : CallUpdate(dt)

SpecPlayer == Init /\ [][NextPlayer]_vars

\* ------------------------------------------------------------ claims
\* a step of update / of update on a session that is not over
IsTick == ticks' = ticks + 1 /\ ~panicked'
RunningTick == IsTick /\ ~game_over

\* C1.  Invincibility window.  In an update call of a running session the
\* first call of take_damage is applied exactly if no damage was applied yet or
\* the frame times passed to Player.update since the last applied damage sum
\* to 2.0 s or more; every other call of that frame returns false.  A call
\* that returns false changes neither lives nor the timer, an applied one
\* takes one life and sets the timer to 2.0 s: lives drops by at most 1 a frame.
C1_InvincibilityWindow ==
    [][RunningTick =>
        LET e == Elapsed(since_damage, last'.dt)
            open == e < 0 \/ e >= INVINCIBLE_TIME
            dmg == last'.dmg
            hit == open /\ Len(dmg) > 0
        IN  /\ \A k \in 1..Len(dmg) : dmg[k].applied <=> (open /\ k = 1)
            /\ player'.lives = IF hit THEN player.lives - 1 ELSE player.lives
            /\ player'.invincible_timer =
                 IF hit THEN INVINCIBLE_TIME
                 ELSE IF player.invincible_timer > 0
                        THEN player.invincible_timer - last'.dt
                        ELSE player.invincible_timer
            /\ ~open => player.invincible_timer > 0]_vars

\* C1 witness: the second life was lost, after an earlier window had passed,
\* in a frame whose second call of take_damage came inside the new window
C1_Witness ==
    /\ player.lives = 1
    /\ Len(last.dmg) >= 2
    /\ last.dmg[1].applied
    /\ ~last.dmg[2].applied

\* C2.  take_damage saturates at zero: a call with invincible_timer <= 0
\* leaves lives = max(lives - 1, 0), also when lives = 0.
C2_TakeDamageSaturates ==
    [][(CallTakeDamage /\ player.invincible_timer <= 0) =>
          /\ ~panicked'
          /\ player'.lives = Max(player.lives - 1, 0)]_vars

\* C3.  game_over holds exactly when lives = 0, and it is set only by an
\* update call of a running session in which take_damage was applied and
\* brought lives from 1 to 0.
C3_GameOverIffNoLives ==
    /\ [](game_over <=> player.lives = 0)
    /\ [][(~game_over /\ game_over') =>
            /\ RunningTick
            /\ AnyApplied(last'.dmg)
            /\ player.lives = 1
            /\ player'.lives = 0]_vars

\* C3 witness: the session ended by the player touching an enemy
C3_Witness ==
    /\ game_over
    /\ player.lives = 0
    /\ Len(last.dmg) = 1
    /\ last.dmg[1].branch = "contact"
    /\ last.dmg[1].applied

\* C4.  GameOver is terminal for the simulation: while game_over holds, an
\* update call without a restart press and a key press of Left, Right or Space
\* leave the whole session as it is (positions, bullets, enemies, score,
\* lives, timers), and only an update call with a restart press ends GameOver.
C4_GameOverTerminal ==
    [][game_over =>
        /\ ((IsTick /\ ~last'.reset)
              \/ \E key \in {"Left", "Right", "Space"} : KeyDown(key))
            => UNCHANGED <<session, since_damage>>
        /\ ~game_over' => (IsTick /\ last'.reset)]_vars

\* C4 witness: update ran on a session that was over, with no restart press,
\* after keys had been pressed
C4_Witness ==
    /\ game_over
    /\ last.dt > 0
    /\ last.dmg = <<>>
    /\ ~last.reset
    /\ keys >= 1

\* C5.  While game_over holds only the restart press is processed: every
\* other event, a key release included, leaves the whole session as it is.
C5_OnlyRestartProcessed ==
    [][(game_over /\ ~(IsTick /\ last'.reset)) => UNCHANGED session]_vars

\* the session just constructed, field by field
IsFresh(S) ==
    /\ S.score = 0
    /\ S.player.lives = 3
    /\ S.game_over = FALSE
    /\ S.player.invincible_timer = 0
    /\ S.spawn_timer = 0
    /\ S.powerup_timer = 0
    /\ S.bullets = <<>>
    /\ S.enemies = <<>>
    /\ S.powerups = <<>>
    /\ S.player.game_object.position = [x |-> 400, y |-> 550]
    /\ S.player.game_object.velocity = [x |-> 0, y |-> 0]

\* C6.  Restart is a full replacement: an update call with a restart press on
\* a session that is over leaves the initial session, whatever came before.
\* On a running session the restart press has no effect: the R key event
\* changes nothing and update does what it does without the press.
C6_RestartIsFullReplacement ==
    [][/\ (game_over /\ IsTick /\ last'.reset) => IsFresh(Session')
       /\ (~game_over /\ KeyDown("R")) => UNCHANGED session
       /\ RunningTick => Tick(last'.dt, FALSE)]_vars

\* C6 witness: a session that was over has been restarted
C6_Witness ==
    /\ last.reset
    /\ ~game_over
    /\ player.lives = 3
    /\ ticks >= 5

\* C7.  The player's position.x is in [15, 785] in every reachable state, and
\* no key event changes the player's position.
C7_PlayerInsideWindow ==
    /\ [](/\ player.game_object.position.x >= 15
          /\ player.game_object.position.x <= 785)
    /\ [][keys' = keys + 1 =>
            player'.game_object.position = player.game_object.position]_vars

\* C7 witness: the player was stopped at the left edge while moving left
C7_Witness ==
    /\ player.game_object.position.x = 15
    /\ player.game_object.velocity.x = -PLAYER_SPEED
    /\ last.dt = 115

\* C8.  No element with alive = false is left in bullets or in enemies when
\* update returns.
C8_NoDeadEntities ==
    /\ \A i \in 1..Len(bullets) : bullets[i].alive
    /\ \A j \in 1..Len(enemies) : enemies[j].alive

KilledByBullets(dt) ==
    LET p2 == move_player(Player_update(player, dt), dt)
        bs == bullet_phase(bullets, dt)
        es == enemy_loop([player |-> p2, enemies |-> enemies,
                          game_over |-> game_over, dmg |-> <<>>,
                          overflow |-> FALSE], 1, dt).enemies
    IN  {j \in 1..Len(es) :
            es[j].alive /\ \E i \in 1..Len(bs) : collides_with(bs[i], es[j])}

C11_TimerNonNegative == player.invincible_timer >= 0

\* the positions of the bullets after position += velocity * dt, in order
Integrated(bs, dt) ==
    [i \in 1..Len(bs) |->
        Vec2(bs[i].position.x + Scaled(bs[i].velocity.x, dt),
             bs[i].position.y + Scaled(bs[i].velocity.y, dt))]

\* C12.  Bullet removal.  In an update call of a running session every bullet
\* whose y is below -10 after integration is absent from bullets when the call
\* returns, every bullet with y >= -10 after integration is still there, and
\* the bullets that stay keep their order: bullets is, position by position,
\* the integrated sequence without the positions above the window.
C12_BulletRemoval ==
    [][RunningTick =>
        LET stay == SelectSeq(Integrated(bullets, last'.dt),
                              LAMBDA q : q.y >= -10)
        IN  /\ Len(bullets') = Len(stay)
            /\ \A i \in 1..Len(stay) : bullets'[i].position = stay[i]]_vars

\* the fire scenario, step by step: a fire press in a running session with
\* the player at (400, 550) appends one bullet at (400, 530) with velocity
\* (0, -400) and changes nothing else, also when bullets are in flight; an
\* update call with dt = 0.05 brings every bullet that is alive at (400, 530)
\* to (400, y)
FireStep(y) ==
    /\ (/\ ~game_over
        /\ player.game_object.position = Vec2(400, 550)
        /\ KeyDown("Space")) =>
            /\ Len(bullets') = Len(bullets) + 1
            /\ SubSeq(bullets', 1, Len(bullets)) = bullets
            /\ bullets'[Len(bullets')].position = Vec2(400, 530)
            /\ bullets'[Len(bullets')].velocity = Vec2(0, -400)
            /\ bullets'[Len(bullets')].alive
            /\ UNCHANGED <<player, enemies, powerups, score, game_over,
                           spawn_timer, powerup_timer>>
    /\ (RunningTick /\ last'.dt = 1) =>
            LET fresh == {i \in 1..Len(bullets) :
                            bullets[i].alive
                              /\ bullets[i].position = Vec2(400, 530)}
                there == {i \in 1..Len(bullets') :
                            bullets'[i].position = Vec2(400, y)}
            IN  Cardinality(there) = Cardinality(fresh)

\* C13 as stated.  Fire scenario: with the player at (400, 550) in a running
\* session one fire press appends exactly one bullet at (400, 530) with
\* velocity (0, -400) and changes nothing else (no cooldown: n presses give n
\* bullets); after one update call with dt = 0.05 that bullet is at y = 509.
C13_FireScenario == [][FireStep(509)]_vars

\* C13 amended.  The same, the bullet being at y = 510 after the update call
\* with dt = 0.05 (530 - 400 * 0.05).
C13_FireScenarioAmended == [][FireStep(510)]_vars

\* C13 witness: two presses gave two bullets, and an update call with
\* dt = 0.05 moved both
C13_Witness ==
    /\ last.dt = 1
    /\ keys = 2
    /\ Len(bullets) = 2
    /\ \A i \in 1..2 : bullets[i].alive /\ bullets[i].position = Vec2(400, 510)

\* the history age runs along enemies, and an enemy's height is the height
\* of its spawn plus its speed times its age
AgeTracksEnemies ==
    /\ Len(age) = Len(enemies)
    /\ \A j \in 1..Len(enemies) :
          enemies[j].position.y = -20 + Scaled(ENEMY_SPEED, age[j])

\* what an update call did to enemy j of the session it was called on
WasHit(j) == \E k \in 1..Len(last'.hits) : last'.hits[k][2] = j
WasTouched(j) ==
    \E k \in 1..Len(last'.dmg) :
        last'.dmg[k].enemy = j /\ last'.dmg[k].branch = "contact"
HasExited(j) ==
    \E k \in 1..Len(last'.dmg) :
        last'.dmg[k].enemy = j /\ last'.dmg[k].branch = "bottom"
\* enemy j is in enemies after the call, alive, at the height of its new age
Stays(j) ==
    \E k \in 1..Len(enemies') :
        /\ age'[k] = age[j] + last'.dt
        /\ enemies'[k].alive
        /\ enemies'[k].position.y = -20 + Scaled(ENEMY_SPEED, age'[k])

\* C14 as stated.  Enemy descent: an enemy spawned at y = -20 that no bullet
\* hits and that does not touch the player is, once the update calls since
\* its spawn sum to 6.0 s (whatever the partition), at y = 580 and still in
\* enemies; in the update call that brings the sum to 6.35 s its y is > 615,
\* it is marked dead and removed, and take_damage is called.
C14_EnemyDescent ==
    /\ [](\A j \in 1..Len(enemies) :
            age[j] = 6 * TimeScale => enemies[j].position.y = 580)
    /\ [][RunningTick =>
            \A j \in 1..Len(enemies) :
                (~WasHit(j) /\ ~WasTouched(j)) =>
                    /\ age[j] + last'.dt <= 6 * TimeScale =>
                          Stays(j) /\ ~HasExited(j)
                    /\ age[j] + last'.dt = 6 * TimeScale + 7 =>
                          HasExited(j) /\ ~Stays(j)]_vars

\* C14 amended.  An enemy spawned at y = -20 that no bullet hits and that does
\* not touch the player is at y = -20 + 100 * t when the update calls since
\* its spawn sum to t: at 580 after 6.0 s and at 615 after 6.35 s, which is
\* not > 615.  It stays in enemies, alive and with no call of take_damage, in
\* every update call that brings the sum to 6.35 s or less, and it is marked
\* dead and removed, with take_damage called, by the first update call that
\* brings the sum above 6.35 s.
C14_EnemyDescentAmended ==
    /\ []AgeTracksEnemies
    /\ [](\A j \in 1..Len(enemies) :
            /\ age[j] = 6 * TimeScale => enemies[j].position.y = 580
            /\ age[j] = 6 * TimeScale + 7 => enemies[j].position.y = 615)
    /\ [][RunningTick =>
            \A j \in 1..Len(enemies) :
                (~WasHit(j) /\ ~WasTouched(j)) =>
                    IF age[j] + last'.dt <= 6 * TimeScale + 7
                      THEN Stays(j) /\ ~HasExited(j)
                      ELSE HasExited(j) /\ ~Stays(j)]_vars

\* C14 witness: an enemy has descended for 6.35 s, the last 0.35 s in one update
\* call, and is in enemies at y = 615, the player standing aside
C14_Witness ==
    /\ last.dt = 7
    /\ last.dmg = <<>>
    /\ player.game_object.position.x < 370
    /\ \E j \in 1..Len(enemies) :
          /\ age[j] = 6 * TimeScale + 7
          /\ enemies[j].alive
          /\ enemies[j].position.y = 615

\* C15.  Spawn cadence.  An update call of a running session appends exactly
\* one enemy, at the end of enemies (y = -20, x in [20, 780), alive), exactly
\* if spawn_timer + dt >= 1.0, and then leaves spawn_timer = 0; otherwise it
\* appends none and spawn_timer grows by dt.  So 0 <= spawn_timer < 1.0 after
\* every call, at most one enemy is spawned per call whatever dt is, and the
\* new enemy is neither moved nor tested for collisions in the call that
\* spawned it: it stands at y = -20 (every older enemy is below), it is alive,
\* and no logged call of take_damage or resolved pair names it.
C15_SpawnCadence ==
    /\ [](0 <= spawn_timer /\ spawn_timer < ENEMY_SPAWN_INTERVAL)
    /\ [][RunningTick =>
        LET dt == last'.dt
            n == Len(enemies')
            kept == Len(enemies) - Cardinality(Gone(last'.dmg, last'.hits))
            fresh == {k \in 1..n : enemies'[k].position.y = -20}
        IN  /\ Gone(last'.dmg, last'.hits) \subseteq 1..Len(enemies)
            /\ IF spawn_timer + dt >= ENEMY_SPAWN_INTERVAL
                 THEN /\ n = kept + 1
                      /\ fresh = {n}
                      /\ enemies'[n].position.x \in 20..779
                      /\ enemies'[n].velocity = Vec2(0, 0)
                      /\ enemies'[n].alive
                      /\ spawn_timer' = 0
                 ELSE /\ n = kept
                      /\ fresh = {}
                      /\ spawn_timer' = spawn_timer + dt]_vars

\* C15 witness: frames of 0.35 s and 0.65 s brought the timer to the interval
\* exactly, and the second spawned an enemy
C15_Witness ==
    /\ ticks = 2
    /\ last.dt = 13
    /\ spawn_timer = 0
    /\ Len(enemies) = 1
    /\ enemies[1].position.y = -20
    /\ enemies[1].alive

\* C16.  The two damage events exclude each other per enemy and update call:
\* for one enemy take_damage is called, and so applied, at most once in a
\* call; an enemy that took the bottom-exit branch is at y > 615 after its
\* move, below the player's box, and does not also take the contact branch,
\* although the two tests are independent ifs.
C16_DamageOncePerEnemy ==
    [][RunningTick =>
        \A j \in 1..Len(enemies) :
            LET calls == {k \in 1..Len(last'.dmg) : last'.dmg[k].enemy = j}
                moved == [enemies[j] EXCEPT !.position.y =
                             @ + Scaled(ENEMY_SPEED, last'.dt)]
            IN  /\ Cardinality(calls) <= 1
                /\ HasExited(j) =>
                      /\ moved.position.y > WINDOW_HEIGHT + 15
                      /\ ~collides_with(player'.game_object, moved)
                      /\ ~WasTouched(j)
                /\ WasTouched(j) =>
                      /\ collides_with(player'.game_object, moved)
                      /\ ~HasExited(j)]_vars

\* C16 witness: in one update call an enemy left through the bottom, which
\* cost a life, and another enemy was in contact with the player
C16_Witness ==
    /\ Len(last.dmg) = 1
    /\ last.dmg[1].branch = "bottom"
    /\ last.dmg[1].applied
    /\ \E j \in 1..Len(enemies) :
          collides_with(player.game_object, enemies[j])

\* C17.  Input edges in a running session.  A press of Left sets the player's
\* velocity.x to -300 and a press of Right to +300, whatever it was (the last
\* press wins); a release of Left or of Right sets it to 0, also when the
\* other key was pressed later and is still held: after down(Left),
\* down(Right), up(Left) velocity.x is 0.  Only a press of Left or Right
\* makes it non-zero again, and while it is 0 update leaves the player where
\* it is.  velocity.y is always 0 and position.y always 550.
C17_InputEdges ==
    /\ [](/\ player.game_object.velocity.y = 0
          /\ player.game_object.position.y = 550
          /\ (/\ Len(keylog) = 3
              /\ keylog[1] = <<"down", "Left">>
              /\ keylog[2] = <<"down", "Right">>
              /\ keylog[3] = <<"up", "Left">>
              /\ ~game_over) => player.game_object.velocity.x = 0)
    /\ [][~game_over =>
            /\ Press("Left") => player'.game_object.velocity.x = -PLAYER_SPEED
            /\ Press("Right") => player'.game_object.velocity.x = PLAYER_SPEED
            /\ (Release("Left") \/ Release("Right")) =>
                  player'.game_object.velocity.x = 0
            /\ (/\ player.game_object.velocity.x = 0
                /\ player'.game_object.velocity.x # 0) =>
                  (Press("Left") \/ Press("Right"))
            /\ (IsTick /\ player.game_object.velocity.x = 0) =>
                  player'.game_object.position = player.game_object.position
       ]_vars

\* C17 witness: Left was pressed, a frame moved the player left, Right was
\* pressed and Left released: the player stands still with Right held
C17_Witness ==
    /\ keylog = << <<"down", "Left">>, <<"down", "Right">>, <<"up", "Left">> >>
    /\ player.game_object.velocity.x = 0
    /\ player.game_object.position.x = 295
    /\ ~game_over

\* C18.  lives -= 1 is never executed with lives = 0: in every update call
\* take_damage is applied only with lives >= 1 and takes exactly one life, no
\* call overflows, so lives stays in 0..3; and lives never increases except
\* by a restart, which sets it to 3.
C18_LivesNeverUnderflow ==
    /\ [](~panicked /\ player.lives \in 0..3)
    /\ [][/\ (ticks' = ticks + 1 /\ AnyApplied(last'.dmg)) =>
                /\ player.lives >= 1
                /\ player'.lives = player.lives - 1
          /\ player'.lives # player.lives =>
                \/ ticks' = ticks + 1 /\ ~game_over /\ AnyApplied(last'.dmg)
                \/ IsTick /\ last'.reset /\ player'.lives = 3]_vars

\* C18 witness: the last life was taken by an enemy leaving through the
\* bottom, and the session is over with lives = 0
C18_Witness ==
    /\ game_over
    /\ player.lives = 0
    /\ ~panicked
    /\ \E k \in 1..Len(last.dmg) :
          last.dmg[k].branch = "bottom" /\ last.dmg[k].applied

\* the followed enemy and bullet are elements of the sequences
TrackedInRange ==
    /\ tracked.enemy \in 0..Len(enemies)
    /\ tracked.bullet \in 0..Len(bullets)

\* an update call of a session that is not over, with no bound on their number
RunningFrame ==
    ~game_over /\ ~panicked' /\ \E dt \in DtLive, r \in BOOLEAN : Frame(dt, r)

\* C19.  If update keeps being called with frame times above a positive
\* constant, every enemy in enemies is eventually removed from it, or the
\* session is over; likewise every bullet in bullets.  An enemy that overlaps
\* the player while the player is invincible is not destroyed by the contact
\* (no call of take_damage from the contact branch, and the enemy stays unless
\* a bullet hits it), and it leaves later like any other.  From call to call
\* the followed enemy is older by dt and the followed bullet higher by 400 dt.
C19_EventuallyRemoved ==
    /\ []TrackedInRange
    /\ (tracked.enemy # 0) ~> (tracked.enemy = 0 \/ game_over)
    /\ (tracked.bullet # 0) ~> (tracked.bullet = 0 \/ game_over)
    /\ [][RunningFrame =>
            /\ (tracked.enemy # 0 /\ tracked'.enemy # 0) =>
                  age'[tracked'.enemy] = age[tracked.enemy] + last'.dt
            /\ (tracked.bullet # 0 /\ tracked'.bullet # 0) =>
                  bullets'[tracked'.bullet].position.y =
                     bullets[tracked.bullet].position.y
                        - Scaled(BULLET_SPEED, last'.dt)
            /\ is_invincible(Player_update(player, last'.dt)) =>
                  \A j \in 1..Len(enemies) :
                      /\ ~WasTouched(j)
                      /\ (/\ collides_with(player'.game_object,
                                [enemies[j] EXCEPT !.position.y =
                                    @ + Scaled(ENEMY_SPEED, last'.dt)])
                          /\ ~WasHit(j)) => Stays(j)]_vars

\* C19 witness: the followed enemy overlaps the player, who is invincible,
\* and is still in enemies; a bullet is followed too
C19_Witness ==
    /\ tracked.enemy # 0
    /\ tracked.bullet # 0
    /\ ~game_over
    /\ is_invincible(player)
    /\ collides_with(player.game_object, enemies[tracked.enemy])
    /\ enemies[tracked.enemy].position.y \in 521..579
    /\ enemies[tracked.enemy].position.x = player.game_object.position.x

====
